---- MODULE Spec2Model ----
(***************************************************************************)
(* Model of the retrieval pipeline of src/app.py: the chunker              *)
(* (chunk_text), the embedder boundary (get_embeddings), the ranker        *)
(* (retrieve_relevant_chunks) and the per-user in-memory store             *)
(* (user_pdf_data) as it is driven by the login, logout, upload_pdf and    *)
(* pdf_chat handlers running on the threads of the Flask server.           *)
(*                                                                         *)
(* Texts are TLA+ strings; Len, \o and SubSeq act on them as on sequences. *)
(***************************************************************************)
EXTENDS Integers, Sequences, FiniteSets, TLC

VARIABLES
    chunker,        \* one activation of chunk_text: its arguments and locals
    ranker,         \* one activation of the ranking of retrieve_relevant_chunks
    user_pdf_data,  \* src/app.py:46, user id -> {chunks, embeddings, loaded}
    session,        \* the session cookie of each client: session['user_id']
    pc,             \* position of each server thread in its handler
    req             \* the locals of the handler each thread is running

vars == <<chunker, ranker, user_pdf_data, session, pc, req>>

(***************************************************************************)
(* Bounds of the model.                                                    *)
(***************************************************************************)
MaxLen == 10        \* longest text given to the stand-alone chunker
MaxSize == 5        \* largest chunk_size given to the stand-alone chunker
MaxOverlap == 6     \* largest overlap given to the stand-alone chunker
MaxIter == 12       \* iterations after which a chunker run is cut off
MaxCorpus == 3      \* most vectors in the corpus given to the stand-alone ranker

(***************************************************************************)
(* Python helpers.                                                         *)
(***************************************************************************)
Min(a, b) == IF a < b THEN a ELSE b
Max(a, b) == IF a > b THEN a ELSE b

\* A Python slice bound, clipped as CPython does: a negative bound counts
\* from the end, and every bound is clamped into 0..len.
PyClip(i, n) == IF i < 0 THEN Max(i + n, 0) ELSE Min(i, n)

\* s[lo:hi] with 0-based Python bounds.
PySlice(s, lo, hi) ==
    LET a == PyClip(lo, Len(s))
        b == PyClip(hi, Len(s))
    IN  IF a < b THEN SubSeq(s, a + 1, b) ELSE SubSeq(s, 1, 0)

\* The character of s at 0-based offset i.
CharAt(s, i) == SubSeq(s, i + 1, i + 1)

(***************************************************************************)
(* chunk_text, src/app.py:56-65.                                           *)
(***************************************************************************)
DefaultChunkSize == 1000
DefaultOverlap == 200

\* A window one character short.
ChunkEndShort(st, size) == st + size - 1

\* line 61: end = start + chunk_size
ChunkEnd(st, size) == st + size

\* A start that steps over the overlap instead of back by it.
NextStartSkipping(en, ov) == en + ov

\* A start that goes back by twice the overlap.
NextStartDoubleOverlap(en, ov) == en - ov - ov

\* line 64: start = end - overlap
NextStart(en, ov) == en - ov

\* line 60: while start < len(text)
LoopCond(st, t) == st < Len(t)

\* The whole loop, as a function of its arguments (terminates only when the
\* start advances).
RECURSIVE chunk_loop(_, _, _, _, _)
chunk_loop(t, size, ov, st, acc) ==
    IF LoopCond(st, t)
    THEN chunk_loop(t, size, ov, NextStart(ChunkEnd(st, size), ov),
                    Append(acc, PySlice(t, st, ChunkEnd(st, size))))
    ELSE acc

\* chunk_text(text) with the default chunk_size and overlap, as upload_pdf
\* calls it.
chunk_text(t) == chunk_loop(t, DefaultChunkSize, DefaultOverlap, 0, <<>>)

(***************************************************************************)
(* One activation of chunk_text, statement by statement.                   *)
(***************************************************************************)
Alphabet == "ABCDEFGHIJKLMNOP"
Texts == {SubSeq(Alphabet, 1, n) : n \in 0..MaxLen} \cup {"AAAA", "  "}

ChunkerIdle ==
    [text |-> "", chunk_size |-> DefaultChunkSize, overlap |-> DefaultOverlap,
     start |-> 0, chunks |-> <<>>, pc |-> "idle"]

\* The call: arguments bound, nothing executed yet.
ChunkerCalled ==
    {[text |-> t, chunk_size |-> s, overlap |-> o, start |-> 0,
      chunks |-> <<>>, pc |-> "entry"] :
        t \in Texts, s \in 1..MaxSize, o \in 0..MaxOverlap}

\* lines 58-59
ChunkEnter ==
    /\ chunker.pc = "entry"
    /\ chunker' = [chunker EXCEPT !.chunks = <<>>, !.start = 0, !.pc = "loop"]
    /\ UNCHANGED <<ranker, user_pdf_data, session, pc, req>>

\* lines 60-64, one iteration
ChunkIter ==
    /\ chunker.pc = "loop"
    /\ LoopCond(chunker.start, chunker.text)
    /\ Len(chunker.chunks) < MaxIter
    /\ LET en == ChunkEnd(chunker.start, chunker.chunk_size)
           chunk == PySlice(chunker.text, chunker.start, en)
       IN  chunker' = [chunker EXCEPT
                          !.chunks = Append(@, chunk),
                          !.start = NextStart(en, chunker.overlap)]
    /\ UNCHANGED <<ranker, user_pdf_data, session, pc, req>>

\* lines 60 and 65: the loop condition fails and the chunks are returned
ChunkReturn ==
    /\ chunker.pc = "loop"
    /\ ~LoopCond(chunker.start, chunker.text)
    /\ chunker' = [chunker EXCEPT !.pc = "returned"]
    /\ UNCHANGED <<ranker, user_pdf_data, session, pc, req>>

ChunkNext == ChunkEnter \/ ChunkIter \/ ChunkReturn

(***************************************************************************)
(* The web application: users, clients, server threads, uploaded files.    *)
(***************************************************************************)
Users == {"u1", "u2"}
NoUser == "none"            \* no 'user_id' key in the session
Clients == {"c1"}
Threads == {"t1", "t2"}

\* c repeated k times.
RECURSIVE Rep(_, _)
Rep(c, k) ==
    IF k = 0 THEN ""
    ELSE IF k % 2 = 0 THEN LET h == Rep(c, k \div 2) IN h \o h
    ELSE c \o Rep(c, k - 1)

DocA == "alpha"             \* shorter than a chunk: one chunk
DocB == Rep("b", 1100)      \* longer than a chunk: chunks of 1000 and 300
DocBlank == " \n"           \* a scanned PDF: pages without text

\* The texts upload_pdf can index.
Docs == {DocA, DocB}

\* What a request to /api/pdf/upload carries: no file, a file PyPDF2 cannot
\* read, or a file with the given text.
Pdfs ==
    {[kind |-> "nofile", text |-> ""], [kind |-> "corrupt", text |-> ""]}
        \cup {[kind |-> "pdf", text |-> d] : d \in Docs \cup {DocBlank}}

\* The message of a request to /api/pdf/chat.
Queries == {"", "bq"}

\* An upload that takes every extracted text as usable.
IsBlankNever(t) == FALSE

\* str.strip() leaves nothing: every character is whitespace (line 240).
IsBlank(t) == \A i \in 0..(Len(t) - 1) : CharAt(t, i) \in {" ", "\n", "\t"}

(***************************************************************************)
(* user_pdf_data, a Python dict: a function on the keys present.           *)
(***************************************************************************)
EmptyDict == [k \in {} |-> 0]
Has(d, k) == k \in DOMAIN d
Put(d, k, v) == [x \in DOMAIN d \cup {k} |-> IF x = k THEN v ELSE d[x]]
Del(d, k) == [x \in DOMAIN d \ {k} |-> d[x]]

(***************************************************************************)
(* get_embeddings, src/app.py:67-77.  The provider is outside the          *)
(* repository: it answers with one vector per text, with a malformed       *)
(* answer (the last vector missing), or the call raises.                   *)
(***************************************************************************)
\* The vector the provider computes for a text.
ProviderVector(t) ==
    <<Len(t) % 3, IF Len(t) > 0 /\ CharAt(t, 0) = "b" THEN 1 ELSE 2>>

ProviderAnswers(texts) ==
    LET exact == [i \in 1..Len(texts) |-> ProviderVector(texts[i])]
    IN  {exact, SubSeq(exact, 1, Len(exact) - 1)}

\* The values get_embeddings can return: None (the except branch, line 77)
\* or the list built at line 74.
get_embeddings(texts) ==
    {[none |-> TRUE, list |-> <<>>]}
        \cup {[none |-> FALSE, list |-> a] : a \in ProviderAnswers(texts)}

\* A test for None only, which lets an empty list through.
TruthyNotNone(e) == ~e.none

\* Python truth value of what get_embeddings returned: None and [] are false.
Truthy(e) == ~e.none /\ Len(e.list) > 0

(***************************************************************************)
(* The ranking of retrieve_relevant_chunks, src/app.py:93-102.             *)
(***************************************************************************)
Dot(a, b) == a[1] * b[1] + a[2] * b[2]

\* cosine_similarity(q, v) squared, as the fraction SimNum/SimDen; a zero
\* vector has similarity 0.  Components are not negative, so the order of
\* the squares is the order of the similarities.
SimNum(q, v) == IF Dot(q, q) = 0 \/ Dot(v, v) = 0 THEN 0 ELSE Dot(q, v) * Dot(q, v)
SimDen(q, v) == IF Dot(q, q) = 0 \/ Dot(v, v) = 0 THEN 1 ELSE Dot(q, q) * Dot(v, v)
SimLess(q, a, b) == SimNum(q, a) * SimDen(q, b) < SimNum(q, b) * SimDen(q, a)

\* np.argsort(similarities): the 0-based indices in an order of ascending
\* similarity.  The default kind of np.argsort is not a stable sort, so among
\* equal similarities every order is a possible result.
argsort(q, embeddings) ==
    LET n == Len(embeddings)
    IN  {o \in [1..n -> 0..(n - 1)] :
            /\ \A a \in 1..n, b \in 1..n : a # b => o[a] # o[b]
            /\ \A a \in 1..n, b \in 1..n :
                  a < b => ~SimLess(q, embeddings[o[b] + 1], embeddings[o[a] + 1])}

Reverse(s) == [i \in 1..Len(s) |-> s[Len(s) + 1 - i]]

\* The last top_k of the ascending order, left in ascending order.
top_indices_ascending(order, top_k) == PySlice(order, -top_k, Len(order))

\* line 99: order[-top_k:][::-1] for the order np.argsort returned
top_indices(order, top_k) == Reverse(PySlice(order, -top_k, Len(order)))

TopK == 3                   \* pdf_chat calls with top_k=3 (line 302)

(***************************************************************************)
(* One activation of retrieve_relevant_chunks from line 85 on, statement   *)
(* by statement: pdf_data and the query embedding are its inputs.          *)
(***************************************************************************)
RankVectors == {<<0, 0>>, <<1, 0>>, <<0, 1>>, <<1, 1>>, <<2, 1>>}

\* All sequences over S of length n.
SeqsOf(S, n) == [1..n -> S]

\* The chunk stored at 0-based index i of the stand-alone corpus.
ChunkLabel(i) == CharAt(Alphabet, i)

RankerIdle ==
    [query_embedding |-> <<0, 0>>, embeddings |-> <<>>, chunks |-> <<>>,
     top_k |-> TopK, top_indices |-> <<>>, relevant_chunks |-> <<>>,
     pc |-> "idle"]

\* The call: a loaded pdf_data with n chunks and n vectors, a query vector
\* and top_k.
RankerCalled ==
    {[query_embedding |-> q, embeddings |-> e,
      chunks |-> [i \in 1..Len(e) |-> ChunkLabel(i - 1)],
      top_k |-> k, top_indices |-> <<>>, relevant_chunks |-> <<>>,
      pc |-> "line_85"] :
        q \in RankVectors,
        e \in UNION {SeqsOf(RankVectors, n) : n \in 0..MaxCorpus},
        k \in 0..(MaxCorpus + 1)}

\* lines 85-86: an empty corpus returns []
RankEmpty ==
    /\ ranker.pc = "line_85"
    /\ Len(ranker.embeddings) = 0
    /\ ranker' = [ranker EXCEPT !.relevant_chunks = <<>>, !.pc = "returned"]
    /\ UNCHANGED <<chunker, user_pdf_data, session, pc, req>>

\* lines 93-99
RankIndices ==
    /\ ranker.pc = "line_85"
    /\ Len(ranker.embeddings) # 0
    /\ \E order \in argsort(ranker.query_embedding, ranker.embeddings) :
          ranker' = [ranker EXCEPT
                        !.top_indices = top_indices(order, ranker.top_k),
                        !.pc = "line_100"]
    /\ UNCHANGED <<chunker, user_pdf_data, session, pc, req>>

\* lines 100-102
RankCollect ==
    /\ ranker.pc = "line_100"
    /\ ranker' = [ranker EXCEPT
                     !.relevant_chunks =
                         [i \in 1..Len(ranker.top_indices) |->
                             ranker.chunks[ranker.top_indices[i] + 1]],
                     !.pc = "returned"]
    /\ UNCHANGED <<chunker, user_pdf_data, session, pc, req>>

RankNext == RankEmpty \/ RankIndices \/ RankCollect

(***************************************************************************)
(* Handler locals and responses.                                           *)
(***************************************************************************)
NoData == [chunks |-> <<>>, embeddings |-> <<>>, loaded |-> FALSE]

\* get_embeddings returned None.
NoEmbeddings == [none |-> TRUE, list |-> <<>>]

NoReq ==
    [client |-> "none", user_id |-> NoUser, query |-> "", chunks |-> <<>>,
     pdf_data |-> NoData, query_embeddings |-> NoEmbeddings,
     relevant_chunks |-> <<>>, status |-> 0, error |-> ""]

\* The handler returns (or an exception leaves it) with this response; of
\* its locals, the user it served and what retrieve_relevant_chunks returned
\* are kept.
Respond(r, code, msg) ==
    [NoReq EXCEPT !.user_id = r.user_id, !.relevant_chunks = r.relevant_chunks,
                  !.status = code, !.error = msg]

Init ==
    /\ chunker = ChunkerIdle
    /\ ranker = RankerIdle
    /\ user_pdf_data = EmptyDict
    /\ session = [c \in Clients |-> NoUser]
    /\ pc = [t \in Threads |-> "idle"]
    /\ req = [t \in Threads |-> NoReq]

(***************************************************************************)
(* login, src/app.py:184-206 (signup sets the session the same way).       *)
(* It does not touch user_pdf_data: a client that logs in as another user  *)
(* overwrites session['user_id'] and nothing else.                         *)
(***************************************************************************)
Login(c, u) ==
    /\ session' = [session EXCEPT ![c] = u]
    /\ UNCHANGED <<chunker, ranker, user_pdf_data, pc, req>>

(***************************************************************************)
(* logout, src/app.py:208-214.                                             *)
(***************************************************************************)
\* A server that handles one request at a time.
IdleSingleThreaded(t) == \A t2 \in Threads : pc[t2] = "idle"

\* app.run (line 568) serves each request on a thread of its own: a request
\* starts on thread t as soon as t is free.
Idle(t) == pc[t] = "idle"

\* line 210: user_id = session.get('user_id')
LogoutBegin(t, c) ==
    /\ Idle(t)
    /\ pc' = [pc EXCEPT ![t] = "logout_211"]
    /\ req' = [req EXCEPT ![t] = [NoReq EXCEPT !.client = c, !.user_id = session[c]]]
    /\ UNCHANGED <<chunker, ranker, user_pdf_data, session>>

\* line 211: if user_id and user_id in user_pdf_data
LogoutCheck(t) ==
    /\ pc[t] = "logout_211"
    /\ pc' = [pc EXCEPT ![t] =
                IF req[t].user_id # NoUser /\ Has(user_pdf_data, req[t].user_id)
                THEN "logout_212" ELSE "logout_213"]
    /\ UNCHANGED <<chunker, ranker, user_pdf_data, session, req>>

\* The entry dropped at line 212.
\* A logout that empties the whole dict.
LogoutDropAll(d, k) == EmptyDict

LogoutDrop(d, k) == Del(d, k)

\* line 212: del user_pdf_data[user_id]; a KeyError when another request
\* removed the key after line 211 leaves the handler with a 500.
LogoutDel(t) ==
    /\ pc[t] = "logout_212"
    /\ IF Has(user_pdf_data, req[t].user_id)
       THEN /\ user_pdf_data' = LogoutDrop(user_pdf_data, req[t].user_id)
            /\ pc' = [pc EXCEPT ![t] = "logout_213"]
            /\ req' = req
       ELSE /\ user_pdf_data' = user_pdf_data
            /\ pc' = [pc EXCEPT ![t] = "done"]
            /\ req' = [req EXCEPT ![t] = Respond(@, 500, "KeyError")]
    /\ UNCHANGED <<chunker, ranker, session>>

\* lines 213-214: session.clear()
LogoutClear(t) ==
    /\ pc[t] = "logout_213"
    /\ session' = [session EXCEPT ![req[t].client] = NoUser]
    /\ pc' = [pc EXCEPT ![t] = "done"]
    /\ req' = [req EXCEPT ![t] = Respond(@, 200, "")]
    /\ UNCHANGED <<chunker, ranker, user_pdf_data>>

(***************************************************************************)
(* upload_pdf, src/app.py:225-284.                                         *)
(***************************************************************************)
\* require_auth (lines 120-123) and lines 228-244: up to the call of
\* get_embeddings.
UploadBegin(t, c, pdf) ==
    /\ Idle(t)
    /\ LET r == [NoReq EXCEPT !.client = c, !.user_id = session[c]]
       IN  IF session[c] = NoUser
           THEN /\ req' = [req EXCEPT ![t] = Respond(r, 401, "Authentication required")]
                /\ pc' = [pc EXCEPT ![t] = "done"]
           ELSE IF pdf.kind = "nofile"
           THEN /\ req' = [req EXCEPT ![t] = Respond(r, 400, "No PDF file provided")]
                /\ pc' = [pc EXCEPT ![t] = "done"]
           ELSE IF pdf.kind = "corrupt"
           THEN /\ req' = [req EXCEPT ![t] = Respond(r, 500, "Error processing PDF")]
                /\ pc' = [pc EXCEPT ![t] = "done"]
           ELSE IF IsBlank(pdf.text)
           THEN /\ req' = [req EXCEPT ![t] =
                              Respond(r, 400, "Could not extract text from PDF")]
                /\ pc' = [pc EXCEPT ![t] = "done"]
           ELSE /\ req' = [req EXCEPT ![t] = [r EXCEPT !.chunks = chunk_text(pdf.text)]]
                /\ pc' = [pc EXCEPT ![t] = "upload_247"]
    /\ UNCHANGED <<chunker, ranker, user_pdf_data, session>>

\* An upload that installs the entry before looking at the embeddings.
StoreAfterUnchecked(d, k, chunks, e) ==
    Put(d, k, [chunks |-> chunks, embeddings |-> e.list, loaded |-> TRUE])

\* An upload that adds the new chunks to the entry already there.
StoreAfterMerging(d, k, chunks, e) ==
    IF ~Truthy(e) THEN d
    ELSE IF Has(d, k)
    THEN Put(d, k, [chunks |-> d[k].chunks \o chunks,
                    embeddings |-> d[k].embeddings \o e.list, loaded |-> TRUE])
    ELSE Put(d, k, [chunks |-> chunks, embeddings |-> e.list, loaded |-> TRUE])

\* lines 248-259: user_pdf_data after get_embeddings returned e.
StoreAfter(d, k, chunks, e) ==
    IF ~Truthy(e) THEN d
    ELSE Put(d, k, [chunks |-> chunks, embeddings |-> e.list, loaded |-> TRUE])

\* line 247 returns, then lines 248-281.
UploadEmbedded(t) ==
    /\ pc[t] = "upload_247"
    /\ \E e \in get_embeddings(req[t].chunks) :
          /\ user_pdf_data' = StoreAfter(user_pdf_data, req[t].user_id, req[t].chunks, e)
          /\ req' = [req EXCEPT ![t] =
                        IF Truthy(e)
                        THEN Respond(@, 200, "")
                        ELSE Respond(@, 500, "Failed to generate embeddings")]
    /\ pc' = [pc EXCEPT ![t] = "done"]
    /\ UNCHANGED <<chunker, ranker, session>>

(***************************************************************************)
(* pdf_chat, src/app.py:286-359, and retrieve_relevant_chunks, 79-102.     *)
(***************************************************************************)
\* require_auth and line 289.
ChatBegin(t, c) ==
    /\ Idle(t)
    /\ LET r == [NoReq EXCEPT !.client = c, !.user_id = session[c]]
       IN  IF session[c] = NoUser
           THEN /\ req' = [req EXCEPT ![t] = Respond(r, 401, "Authentication required")]
                /\ pc' = [pc EXCEPT ![t] = "done"]
           ELSE /\ req' = [req EXCEPT ![t] = r]
                /\ pc' = [pc EXCEPT ![t] = "chat_291"]
    /\ UNCHANGED <<chunker, ranker, user_pdf_data, session>>

\* A membership test that lets every user through.
ChatMissingNever(d, k) == FALSE

\* line 291, left operand: user_id not in user_pdf_data
ChatMissing(d, k) == ~Has(d, k)

ChatCheck(t) ==
    /\ pc[t] = "chat_291"
    /\ IF ChatMissing(user_pdf_data, req[t].user_id)
       THEN /\ req' = [req EXCEPT ![t] = Respond(@, 400, "Please upload a PDF first")]
            /\ pc' = [pc EXCEPT ![t] = "done"]
       ELSE /\ req' = req
            /\ pc' = [pc EXCEPT ![t] = "chat_291_loaded"]
    /\ UNCHANGED <<chunker, ranker, user_pdf_data, session>>

\* line 291, right operand: not user_pdf_data[user_id]['loaded'] (outside the
\* try of line 300: a KeyError is a 500), then lines 294-298 with the
\* message q of the request.
ChatCheckLoaded(t, q) ==
    /\ pc[t] = "chat_291_loaded"
    /\ IF ~Has(user_pdf_data, req[t].user_id)
       THEN /\ req' = [req EXCEPT ![t] = Respond(@, 500, "KeyError")]
            /\ pc' = [pc EXCEPT ![t] = "done"]
       ELSE IF ~user_pdf_data[req[t].user_id].loaded
       THEN /\ req' = [req EXCEPT ![t] = Respond(@, 400, "Please upload a PDF first")]
            /\ pc' = [pc EXCEPT ![t] = "done"]
       ELSE IF q = ""
       THEN /\ req' = [req EXCEPT ![t] = Respond(@, 400, "No message provided")]
            /\ pc' = [pc EXCEPT ![t] = "done"]
       ELSE /\ req' = [req EXCEPT ![t].query = q]
            /\ pc' = [pc EXCEPT ![t] = "retrieve_81"]
    /\ UNCHANGED <<chunker, ranker, user_pdf_data, session>>

\* line 81: an absent key returns [], which pdf_chat answers at line 305.
RetrieveCheck(t) ==
    /\ pc[t] = "retrieve_81"
    /\ IF ~Has(user_pdf_data, req[t].user_id)
       THEN /\ req' = [req EXCEPT ![t] =
                          Respond(@, 500, "Could not retrieve relevant information")]
            /\ pc' = [pc EXCEPT ![t] = "done"]
       ELSE /\ req' = req
            /\ pc' = [pc EXCEPT ![t] = "retrieve_84"]
    /\ UNCHANGED <<chunker, ranker, user_pdf_data, session>>

\* A read that takes the entry out of the dict, as dict.pop does.
AfterReadPopping(d, k) == Del(d, k)

\* line 84: user_pdf_data is a plain dict (line 46); subscripting it leaves
\* it as it is, key present or not.
AfterRead(d, k) == d

\* lines 84-86: pdf_data = user_pdf_data[user_id]; a KeyError is caught at
\* line 358.
RetrieveRead(t) ==
    /\ pc[t] = "retrieve_84"
    /\ IF ~Has(user_pdf_data, req[t].user_id)
       THEN /\ req' = [req EXCEPT ![t] = Respond(@, 500, "Error generating response")]
            /\ pc' = [pc EXCEPT ![t] = "done"]
       ELSE LET pdf_data == user_pdf_data[req[t].user_id]
            IN  IF ~pdf_data.loaded \/ Len(pdf_data.embeddings) = 0
                THEN /\ req' = [req EXCEPT ![t] =
                              Respond(@, 500, "Could not retrieve relevant information")]
                     /\ pc' = [pc EXCEPT ![t] = "done"]
                ELSE /\ req' = [req EXCEPT ![t].pdf_data = pdf_data]
                     /\ pc' = [pc EXCEPT ![t] = "retrieve_89"]
    /\ user_pdf_data' = AfterRead(user_pdf_data, req[t].user_id)
    /\ UNCHANGED <<chunker, ranker, session>>

\* lines 99-100 for the order np.argsort returned: the chunks at the top
\* indices, or the IndexError of line 100 when an index has no chunk.
Ranked(pdf_data, order) ==
    LET idx == top_indices(order, TopK)
    IN  IF \E i \in 1..Len(idx) : idx[i] >= Len(pdf_data.chunks)
        THEN [raised |-> TRUE, chunks |-> <<>>]
        ELSE [raised |-> FALSE,
              chunks |-> [i \in 1..Len(idx) |-> pdf_data.chunks[idx[i] + 1]]]

\* line 89: get_embeddings([query]) returns.
RetrieveEmbedded(t) ==
    /\ pc[t] = "retrieve_89"
    /\ \E e \in get_embeddings(<<req[t].query>>) :
          req' = [req EXCEPT ![t].query_embeddings = e]
    /\ pc' = [pc EXCEPT ![t] = "retrieve_90"]
    /\ UNCHANGED <<chunker, ranker, user_pdf_data, session>>

\* A ranking that takes the chunks from the entry as it is now instead of
\* from the pdf_data read at line 84.
RankSourceReread(snapshot, d, k) ==
    IF Has(d, k) THEN [snapshot EXCEPT !.chunks = d[k].chunks] ELSE snapshot

\* lines 96 and 100 rank and index the local pdf_data of line 84, not
\* user_pdf_data.
RankSource(snapshot, d, k) == snapshot

\* A pdf_chat that passes an empty retrieval on to the completion call.
ChatFailsNever(relevant_chunks) == FALSE

\* line 304: if not relevant_chunks
ChatFails(relevant_chunks) == Len(relevant_chunks) = 0

\* lines 331-356 with the chunks retrieved; answered tells whether the
\* completion call and the insert went through (else line 358-359).
Answer(r, relevant_chunks, answered) ==
    IF answered
    THEN Respond([r EXCEPT !.relevant_chunks = relevant_chunks], 200, "")
    ELSE Respond([r EXCEPT !.relevant_chunks = relevant_chunks],
                 500, "Error generating response")

\* lines 90-102, then lines 304-359 of pdf_chat.
RetrieveRanked(t) ==
    /\ pc[t] = "retrieve_90"
    /\ LET e == req[t].query_embeddings
           src == RankSource(req[t].pdf_data, user_pdf_data, req[t].user_id)
       IN  IF ~Truthy(e)
           THEN \E answered \in BOOLEAN :
                   req' = [req EXCEPT ![t] =
                              IF ChatFails(<<>>)
                              THEN Respond(@, 500, "Could not retrieve relevant information")
                              ELSE Answer(@, <<>>, answered)]
           ELSE \E order \in argsort(e.list[1], src.embeddings), answered \in BOOLEAN :
                   LET got == Ranked(src, order)
                   IN  req' = [req EXCEPT ![t] =
                                  IF got.raised
                                  THEN Respond(@, 500, "Error generating response")
                                  ELSE IF ChatFails(got.chunks)
                                  THEN Respond(@, 500,
                                               "Could not retrieve relevant information")
                                  ELSE Answer(@, got.chunks, answered)]
    /\ pc' = [pc EXCEPT ![t] = "done"]
    /\ UNCHANGED <<chunker, ranker, user_pdf_data, session>>

\* The response is sent and the thread is free for the next request.
Return(t) ==
    /\ pc[t] = "done"
    /\ pc' = [pc EXCEPT ![t] = "idle"]
    /\ req' = [req EXCEPT ![t] = NoReq]
    /\ UNCHANGED <<chunker, ranker, user_pdf_data, session>>

Next ==
    \/ \E c \in Clients, u \in Users : Login(c, u)
    \/ \E t \in Threads, c \in Clients : LogoutBegin(t, c)
    \/ \E t \in Threads : LogoutCheck(t)
    \/ \E t \in Threads : LogoutDel(t)
    \/ \E t \in Threads : LogoutClear(t)
    \/ \E t \in Threads, c \in Clients, pdf \in Pdfs : UploadBegin(t, c, pdf)
    \/ \E t \in Threads : UploadEmbedded(t)
    \/ \E t \in Threads, c \in Clients : ChatBegin(t, c)
    \/ \E t \in Threads : ChatCheck(t)
    \/ \E t \in Threads, q \in Queries : ChatCheckLoaded(t, q)
    \/ \E t \in Threads : RetrieveCheck(t)
    \/ \E t \in Threads : RetrieveRead(t)
    \/ \E t \in Threads : RetrieveEmbedded(t)
    \/ \E t \in Threads : RetrieveRanked(t)
    \/ \E t \in Threads : Return(t)

Spec == Init /\ [][Next]_vars

(***************************************************************************)
(* Properties of the web application, checked under Spec.                  *)
(***************************************************************************)
\* Every element of seq is a chunk of document d.
OfDocument(seq, d) ==
    \A i \in 1..Len(seq) : \E j \in 1..Len(chunk_text(d)) : seq[i] = chunk_text(d)[j]

\* Thread t takes the step from position a to position b.
Moves(t, a, b) == pc[t] = a /\ pc'[t] = b

\* C1: an upload whose get_embeddings call fails (None or an empty list)
\* leaves user_pdf_data as it was: an entry the user had keeps its chunks and
\* vectors, and a user without an entry gets none.
C1_FailedUploadKeepsIndex ==
    [][\A t \in Threads :
          (Moves(t, "upload_247", "done") /\ req'[t].status # 200)
              => /\ req'[t].error = "Failed to generate embeddings"
                 /\ user_pdf_data' = user_pdf_data]_vars

\* A failed upload has answered while its user's earlier index is in place.
C1_Witness ==
    \E t \in Threads :
        /\ pc[t] = "done"
        /\ req[t].error = "Failed to generate embeddings"
        /\ Has(user_pdf_data, req[t].user_id)
        /\ user_pdf_data[req[t].user_id].chunks = chunk_text(DocB)

\* C3: a successful upload replaces the user's entry by the chunks of the
\* new document alone; a query reads the entry that is current when it
\* reaches line 84 and returns chunks of that one document only.
C3_SecondUploadReplaces ==
    [][\A t \in Threads :
          /\ (Moves(t, "upload_247", "done") /\ req'[t].status = 200)
                => user_pdf_data'[req[t].user_id].chunks = req[t].chunks
          /\ Moves(t, "retrieve_84", "retrieve_89")
                => /\ req'[t].pdf_data = user_pdf_data[req[t].user_id]
                   /\ \E d \in Docs : req'[t].pdf_data.chunks = chunk_text(d)
          /\ Moves(t, "retrieve_90", "done")
                => \E d \in Docs :
                      /\ req[t].pdf_data.chunks = chunk_text(d)
                      /\ OfDocument(req'[t].relevant_chunks, d)]_vars

\* A user's index went from one document to the other: a query that read it
\* before the replacement and one that read it after have both answered.
C3_Witness ==
    \E u \in Users, t1 \in Threads, t2 \in Threads :
        /\ pc[t1] = "done" /\ req[t1].user_id = u /\ req[t1].status = 200
        /\ Len(req[t1].relevant_chunks) > 0
        /\ OfDocument(req[t1].relevant_chunks, DocA)
        /\ pc[t2] = "done" /\ req[t2].user_id = u /\ req[t2].status = 200
        /\ Len(req[t2].relevant_chunks) > 0
        /\ OfDocument(req[t2].relevant_chunks, DocB)
        /\ Has(user_pdf_data, u)
        /\ user_pdf_data[u].chunks = chunk_text(DocB)

\* C4: a pdf_chat request that finds no entry for its user at line 291 ends
\* there with "Please upload a PDF first"; and whenever a request finds no
\* entry at one of its tests (lines 291, 81, 84) it ends as a failure with
\* no chunks, without reaching the get_embeddings call of line 89.
C4_QueryWithoutIndexFails ==
    [][\A t \in Threads :
          /\ (pc[t] = "chat_291" /\ pc'[t] # pc[t]
                  /\ ~Has(user_pdf_data, req[t].user_id))
                => /\ pc'[t] = "done"
                   /\ req'[t].status = 400
                   /\ req'[t].error = "Please upload a PDF first"
                   /\ req'[t].relevant_chunks = <<>>
          /\ (pc[t] \in {"chat_291_loaded", "retrieve_81", "retrieve_84"}
                  /\ pc'[t] # pc[t]
                  /\ ~Has(user_pdf_data, req[t].user_id))
                => /\ pc'[t] = "done"
                   /\ req'[t].status # 200
                   /\ req'[t].relevant_chunks = <<>>]_vars

\* A query of a user without an entry has been refused.
C4_Witness ==
    \E t \in Threads :
        /\ pc[t] = "done"
        /\ req[t].error = "Please upload a PDF first"
        /\ req[t].user_id \in Users
        /\ ~Has(user_pdf_data, req[t].user_id)

\* C5: when the last session of a user ends (the session is cleared or
\* overwritten by a login), user_pdf_data holds no entry for that user.
C5_SessionEndDropsData ==
    [][\A u \in Users :
          ((\E c \in Clients : session[c] = u) /\ (\A c \in Clients : session'[c] # u))
              => ~Has(user_pdf_data', u)]_vars

\* C6: every entry of user_pdf_data has as many vectors as chunks.
C6_LengthsMatch ==
    \A u \in DOMAIN user_pdf_data :
        Len(user_pdf_data[u].chunks) = Len(user_pdf_data[u].embeddings)

\* Thread t is inside its access to the entry of user u: a pdf_chat between
\* its membership test (line 291) and its use of pdf_data (line 100), or a
\* logout between its test (line 211) and its del (line 212).
InAccess(t, u) ==
    /\ req[t].user_id = u
    /\ pc[t] \in {"chat_291_loaded", "retrieve_81", "retrieve_84", "retrieve_89",
                  "logout_212"}

\* The entry of user u is written or removed in this step.
EntryChanges(u) ==
    \/ Has(user_pdf_data, u) # Has(user_pdf_data', u)
    \/ (Has(user_pdf_data, u) /\ Has(user_pdf_data', u)
            /\ user_pdf_data[u] # user_pdf_data'[u])

\* C7: the entry of a user is never written or removed while another thread
\* is inside its access to that entry.
C7_MutualExclusion ==
    [][\A u \in Users :
          EntryChanges(u)
              => ~\E t \in Threads :
                    InAccess(t, u) /\ pc'[t] = pc[t] /\ req'[t] = req[t]]_vars

(***************************************************************************)
(* Properties of chunk_text, checked under ChunkSpec.                      *)
(***************************************************************************)
\* size > overlap >= 0
ValidConfiguration == chunker.overlap < chunker.chunk_size

\* C2: a call with overlap >= chunk_size is rejected: it appends no chunk and
\* does not return a result.
C2_InvalidConfigurationRejected ==
    ~ValidConfiguration => (chunker.chunks = <<>> /\ chunker.pc # "returned")

\* C8: with a valid configuration the chunks returned cover the text: chunk j
\* (from 0) holds the characters from offset j*(size-overlap) on, every
\* offset of the text lies in some chunk, and a text that is not empty gives
\* at least one chunk.
C8_ChunksCoverText ==
    (chunker.pc = "returned" /\ ValidConfiguration) =>
        LET step == chunker.chunk_size - chunker.overlap
        IN  /\ \A i \in 0..(Len(chunker.text) - 1) :
                  \E j \in 1..Len(chunker.chunks) :
                      /\ (j - 1) * step <= i
                      /\ i < (j - 1) * step + Len(chunker.chunks[j])
                      /\ CharAt(chunker.chunks[j], i - (j - 1) * step)
                            = CharAt(chunker.text, i)
            /\ (Len(chunker.text) >= 1 => Len(chunker.chunks) >= 1)

\* A text cut into several overlapping chunks, the last one clipped.
C8_Witness ==
    /\ chunker.pc = "returned"
    /\ ValidConfiguration
    /\ chunker.overlap >= 1
    /\ Len(chunker.text) >= 8
    /\ Len(chunker.chunks) >= 3
    /\ Len(chunker.chunks[Len(chunker.chunks)]) < chunker.chunk_size

\* C9: a text that is not empty and shorter than chunk_size gives exactly one
\* chunk, the whole text.
C9_ShortTextOneChunk ==
    (/\ chunker.pc = "returned"
     /\ ValidConfiguration
     /\ 1 <= Len(chunker.text)
     /\ Len(chunker.text) < chunker.chunk_size)
        => chunker.chunks = <<chunker.text>>

\* C10: chunk_text("ABCDEFGHIJ", 4, 1) returns ABCD, DEFG, GHIJ and no
\* further chunk.
C10_ExampleThreeChunks ==
    (/\ chunker.pc = "returned"
     /\ chunker.text = "ABCDEFGHIJ"
     /\ chunker.chunk_size = 4
     /\ chunker.overlap = 1)
        => chunker.chunks = <<"ABCD", "DEFG", "GHIJ">>

(***************************************************************************)
(* Properties of the ranking, checked under RankSpec.                      *)
(***************************************************************************)
\* The vector at 0-based index i of the ranker's corpus.
CorpusAt(i) == ranker.embeddings[i + 1]

\* Indices i and j of the corpus are equally similar to the query.
SameSimilarity(i, j) ==
    /\ ~SimLess(ranker.query_embedding, CorpusAt(i), CorpusAt(j))
    /\ ~SimLess(ranker.query_embedding, CorpusAt(j), CorpusAt(i))

\* C11: among returned indices of equal similarity the smaller index comes
\* first (top_k >= 1).
C11_TiesAscendingIndex ==
    (ranker.pc = "returned" /\ ranker.top_k >= 1) =>
        \A a \in 1..Len(ranker.top_indices), b \in 1..Len(ranker.top_indices) :
            (a < b /\ SameSimilarity(ranker.top_indices[a], ranker.top_indices[b]))
                => ranker.top_indices[a] < ranker.top_indices[b]

\* C12: with top_k = 0 nothing is returned, whatever the corpus.
C12_ZeroKReturnsNothing ==
    (ranker.pc = "returned" /\ ranker.top_k = 0) => ranker.relevant_chunks = <<>>

\* C13: with top_k >= 1 and a corpus of n vectors the ranker returns
\* min(top_k, n) distinct entries of the corpus, none less similar to the
\* query than an entry left out, in order of descending similarity; an empty
\* corpus gives the empty sequence.
C13_TopKDescending ==
    (ranker.pc = "returned" /\ ranker.top_k >= 1) =>
        LET n == Len(ranker.embeddings)
            idx == ranker.top_indices
            chosen == {idx[a] : a \in 1..Len(idx)}
        IN  /\ Len(ranker.relevant_chunks) = Min(ranker.top_k, n)
            /\ Len(idx) = Len(ranker.relevant_chunks)
            /\ chosen \subseteq 0..(n - 1)
            /\ Cardinality(chosen) = Len(idx)
            /\ \A a \in 1..Len(idx) :
                  ranker.relevant_chunks[a] = ranker.chunks[idx[a] + 1]
            /\ \A i \in chosen, j \in (0..(n - 1)) \ chosen :
                  ~SimLess(ranker.query_embedding, CorpusAt(i), CorpusAt(j))
            /\ \A a \in 1..Len(idx), b \in 1..Len(idx) :
                  a < b => ~SimLess(ranker.query_embedding,
                                    CorpusAt(idx[a]), CorpusAt(idx[b]))

\* Two of three vectors of different similarity are returned, best first.
C13_Witness ==
    /\ ranker.pc = "returned"
    /\ ranker.top_k = 2
    /\ Len(ranker.embeddings) = 3
    /\ Len(ranker.relevant_chunks) = 2
    /\ SimLess(ranker.query_embedding, CorpusAt(ranker.top_indices[2]),
               CorpusAt(ranker.top_indices[1]))
    /\ \E j \in 0..2 :
          SimLess(ranker.query_embedding, CorpusAt(j),
                  CorpusAt(ranker.top_indices[2]))

\* C14: a step of a request served for one user leaves the entry of every
\* other user as it was, and a query reads, ranks and returns chunks of the
\* entry of its own user only.
C14_CrossUserFrame ==
    [][/\ \A u \in Users :
             EntryChanges(u) => \E t \in Threads : pc'[t] # pc[t] /\ req[t].user_id = u
       /\ \A t \in Threads :
             /\ Moves(t, "retrieve_84", "retrieve_89")
                   => req'[t].pdf_data = user_pdf_data[req[t].user_id]
             /\ (Moves(t, "retrieve_90", "done") /\ req'[t].status = 200)
                   => \A i \in 1..Len(req'[t].relevant_chunks) :
                         \E j \in 1..Len(req[t].pdf_data.chunks) :
                            req'[t].relevant_chunks[i] = req[t].pdf_data.chunks[j]]_vars

\* u2 is answered from its own document while u1's entry, made before from
\* another document, is still there, and a logout of u2 has left u1's entry.
C14_Witness ==
    /\ Has(user_pdf_data, "u1")
    /\ user_pdf_data["u1"].chunks = chunk_text(DocA)
    /\ \E t \in Threads :
          /\ pc[t] = "done"
          /\ req[t].user_id = "u2"
          /\ req[t].status = 200
          /\ Len(req[t].relevant_chunks) > 0
          /\ OfDocument(req[t].relevant_chunks, DocB)
    /\ \E t \in Threads :
          /\ pc[t] = "logout_213"
          /\ req[t].user_id = "u2"
          /\ ~Has(user_pdf_data, "u2")

\* C15: an entry is installed only by the step that ends an upload with 200
\* after get_embeddings returned vectors for the chunks of a text with
\* content; an upload of a text without content ends with "Could not
\* extract text from PDF" before chunk_text and get_embeddings are reached,
\* and leaves user_pdf_data as it was.
C15_LoadedOnlyByFullUpload ==
    [][/\ \A u \in Users :
             (EntryChanges(u) /\ Has(user_pdf_data', u))
                 => \E t \in Threads :
                       /\ Moves(t, "upload_247", "done")
                       /\ req[t].user_id = u
                       /\ req'[t].status = 200
                       /\ user_pdf_data'[u].loaded
                       /\ user_pdf_data'[u].chunks = req[t].chunks
                       /\ Len(user_pdf_data'[u].embeddings) > 0
       /\ \A t \in Threads :
             /\ Moves(t, "idle", "upload_247")
                   => \E d \in Docs : ~IsBlank(d) /\ req'[t].chunks = chunk_text(d)
             /\ (Moves(t, "idle", "done")
                     /\ req'[t].error = "Could not extract text from PDF")
                   => /\ req'[t].status = 400
                      /\ user_pdf_data' = user_pdf_data]_vars

\* An upload without text was refused for a user whose entry, made by an
\* earlier upload, is still there.
C15_Witness ==
    \E t \in Threads :
       /\ pc[t] = "done"
       /\ req[t].error = "Could not extract text from PDF"
       /\ Has(user_pdf_data, req[t].user_id)
       /\ user_pdf_data[req[t].user_id].chunks = chunk_text(DocB)

\* C16: a query whose get_embeddings call failed (None or an empty list) on
\* an entry that was loaded ends with a 500 and no chunks, never with a 200,
\* and no step of the query changes user_pdf_data.
C16_EmbedderFailureReported ==
    [][\A t \in Threads :
          /\ (Moves(t, "retrieve_90", "done") /\ ~Truthy(req[t].query_embeddings))
                => /\ req'[t].status = 500
                   /\ req'[t].error = "Could not retrieve relevant information"
                   /\ req'[t].relevant_chunks = <<>>
                   /\ user_pdf_data' = user_pdf_data
          /\ Moves(t, "retrieve_89", "retrieve_90") => user_pdf_data' = user_pdf_data]_vars

\* The embedder has failed for a query of a user whose entry is loaded, and
\* another query of that user on the same entry was answered.
C16_Witness ==
    \E t \in Threads, t2 \in Threads :
       /\ pc[t] = "retrieve_90"
       /\ ~Truthy(req[t].query_embeddings)
       /\ req[t].pdf_data.loaded
       /\ Has(user_pdf_data, req[t].user_id)
       /\ user_pdf_data[req[t].user_id] = req[t].pdf_data
       /\ pc[t2] = "done"
       /\ req[t2].user_id = req[t].user_id
       /\ req[t2].status = 200
       /\ Len(req[t2].relevant_chunks) > 0

\* ceil(a / b) for b >= 1.
CeilDiv(a, b) == (a + b - 1) \div b

\* C17: with overlap < chunk_size every iteration of the loop moves start
\* forward, and the number of iterations (one chunk each) never exceeds
\* ceil(len(text) / (chunk_size - overlap)); the loop is then left, and a
\* call that keeps running returns.
C17_ChunkingTerminates ==
    /\ (ValidConfiguration ~> chunker.pc = "returned")
    /\ [][(ValidConfiguration /\ chunker'.chunks # chunker.chunks)
          => /\ chunker'.start > chunker.start
             /\ Len(chunker'.chunks) = Len(chunker.chunks) + 1
             /\ Len(chunker'.chunks)
                   <= CeilDiv(Len(chunker.text), chunker.chunk_size - chunker.overlap)
             /\ (Len(chunker'.chunks)
                     = CeilDiv(Len(chunker.text), chunker.chunk_size - chunker.overlap)
                   => ~LoopCond(chunker'.start, chunker.text))]_vars

\* A call with overlap that returned after the largest number of iterations
\* its text allows.
C17_Witness ==
    /\ chunker.pc = "returned"
    /\ ValidConfiguration
    /\ chunker.overlap >= 1
    /\ Len(chunker.chunks) >= 5
    /\ Len(chunker.chunks)
          = CeilDiv(Len(chunker.text), chunker.chunk_size - chunker.overlap)

\* C18: with a valid configuration chunk j (from 0) is
\* text[j*step : j*step + chunk_size] clipped to the text, for exactly the
\* j with j*step < len(text), step = chunk_size - overlap; every chunk is
\* non-empty and at most chunk_size long; an empty text gives no chunk.
C18_SlidingWindow ==
    chunker.pc = "returned" =>
        /\ chunker.text = "" => chunker.chunks = <<>>
        /\ ValidConfiguration =>
              LET step == chunker.chunk_size - chunker.overlap
                  n == Len(chunker.text)
              IN  /\ Len(chunker.chunks) = CeilDiv(n, step)
                  /\ \A j \in 0..(Len(chunker.chunks) - 1) :
                        /\ j * step < n
                        /\ chunker.chunks[j + 1]
                              = SubSeq(chunker.text, j * step + 1,
                                       Min(j * step + chunker.chunk_size, n))
                        /\ Len(chunker.chunks[j + 1]) >= 1
                        /\ Len(chunker.chunks[j + 1]) <= chunker.chunk_size

\* The ten-letter text in windows of 4 with overlap 1: starts 0, 3, 6, 9.
C18_Witness ==
    /\ chunker.pc = "returned"
    /\ chunker.text = "ABCDEFGHIJ"
    /\ chunker.chunk_size = 4
    /\ chunker.overlap = 1
    /\ chunker.chunks = <<"ABCD", "DEFG", "GHIJ", "J">>

\* The next statement of the request thread t is serving.
Continue(t) ==
    \/ LogoutCheck(t) \/ LogoutDel(t) \/ LogoutClear(t)
    \/ UploadEmbedded(t)
    \/ ChatCheck(t) \/ (\E q \in Queries : ChatCheckLoaded(t, q))
    \/ RetrieveCheck(t) \/ RetrieveRead(t) \/ RetrieveEmbedded(t) \/ RetrieveRanked(t)
    \/ Return(t)

\* Thread t waits for get_embeddings to return.
InEmbedder(t) == pc[t] \in {"upload_247", "retrieve_89"}

\* C19: while one thread waits in get_embeddings for a user, every other
\* thread can take up any logout, upload or query when it is free, and can
\* execute its next statement when it is serving a request, without a step
\* of the waiting thread.
C19_NoGlobalSerialization ==
    \A t \in Threads :
       InEmbedder(t) =>
          \A t2 \in Threads \ {t} :
             IF pc[t2] = "idle"
             THEN \A c \in Clients :
                     /\ ENABLED LogoutBegin(t2, c)
                     /\ ENABLED ChatBegin(t2, c)
                     /\ \A pdf \in Pdfs : ENABLED UploadBegin(t2, c, pdf)
             ELSE ENABLED Continue(t2)

\* u1's upload waits in get_embeddings while a query of u2, begun and
\* embedded on the other thread, is about to be ranked.
C19_Witness ==
    \E t \in Threads, t2 \in Threads :
       /\ pc[t] = "upload_247"
       /\ req[t].user_id = "u1"
       /\ pc[t2] = "retrieve_90"
       /\ req[t2].user_id = "u2"
       /\ Truthy(req[t2].query_embeddings)

\* The chunks and vectors pdf_data holds were made from one upload of d.
VersionOf(pdf_data, d) ==
    /\ pdf_data.chunks = chunk_text(d)
    /\ pdf_data.embeddings \in ProviderAnswers(chunk_text(d))

\* C20: an upload installs the chunks and the vectors made from them in one
\* step; a query reads the entry once, and the vectors it ranks and the
\* chunks it returns are those of one upload, whatever uploads of the same
\* user run between its statements.
C20_SingleIndexVersion ==
    [][\A t \in Threads :
          /\ (Moves(t, "upload_247", "done") /\ req'[t].status = 200)
                => \E d \in Docs : VersionOf(user_pdf_data'[req[t].user_id], d)
          /\ Moves(t, "retrieve_84", "retrieve_89")
                => /\ req'[t].pdf_data = user_pdf_data[req[t].user_id]
                   /\ \E d \in Docs : VersionOf(req'[t].pdf_data, d)
          /\ Moves(t, "retrieve_89", "retrieve_90")
                => req'[t].pdf_data = req[t].pdf_data
          /\ (Moves(t, "retrieve_90", "done") /\ req'[t].status = 200)
                => \E d \in Docs :
                      /\ VersionOf(req[t].pdf_data, d)
                      /\ Len(req'[t].relevant_chunks) > 0
                      /\ OfDocument(req'[t].relevant_chunks, d)]_vars

\* A query read the entry made from DocA and has its query vector; before
\* it ranks, an upload of the same user has replaced the entry by DocB's.
C20_Witness ==
    \E t \in Threads :
       /\ pc[t] = "retrieve_90"
       /\ Truthy(req[t].query_embeddings)
       /\ VersionOf(req[t].pdf_data, DocA)
       /\ Has(user_pdf_data, req[t].user_id)
       /\ VersionOf(user_pdf_data[req[t].user_id], DocB)

\* C21: the reads of user_pdf_data[user_id] at line 291 (right operand) and
\* at line 84, each made after a membership test passed, find the key
\* present.
C21_ReadsFindKey ==
    [][\A t \in Threads :
          (pc[t] \in {"chat_291_loaded", "retrieve_84"} /\ pc'[t] # pc[t])
              => Has(user_pdf_data, req[t].user_id)]_vars

\* Thread t is inside pdf_chat or retrieve_relevant_chunks.
InChat(t) ==
    pc[t] \in {"chat_291", "chat_291_loaded", "retrieve_81", "retrieve_84",
               "retrieve_89", "retrieve_90"}

\* C22: no statement of pdf_chat or retrieve_relevant_chunks, whatever the
\* response, changes user_pdf_data: entries keep their chunks, vectors and
\* loaded flag, and no entry appears or disappears.
C22_QueryLeavesIndex ==
    [][\A t \in Threads :
          ((InChat(t) /\ pc'[t] # pc[t]) \/ Moves(t, "idle", "chat_291"))
              => user_pdf_data' = user_pdf_data]_vars

\* A query of u1 was answered and u1's entry is there; a query of u2, who
\* has no entry, was refused and u2 still has none.
C22_Witness ==
    \E t \in Threads, t2 \in Threads :
       /\ pc[t] = "done"
       /\ req[t].user_id = "u1"
       /\ req[t].status = 200
       /\ Len(req[t].relevant_chunks) > 0
       /\ Has(user_pdf_data, "u1")
       /\ OfDocument(req[t].relevant_chunks, DocB)
       /\ VersionOf(user_pdf_data["u1"], DocB)
       /\ pc[t2] = "done"
       /\ req[t2].user_id = "u2"
       /\ req[t2].error = "Please upload a PDF first"
       /\ ~Has(user_pdf_data, "u2")

\* C23: every entry of user_pdf_data has loaded = True, at least one chunk
\* and at least one embedding vector.
C23_EntriesFullyLoaded ==
    \A u \in Users :
       Has(user_pdf_data, u)
           => /\ user_pdf_data[u].loaded
              /\ Len(user_pdf_data[u].chunks) >= 1
              /\ Len(user_pdf_data[u].embeddings) >= 1

\* An upload of u2 failed in get_embeddings and left no entry for u2, while
\* u1 has the entry of a finished upload.
C23_Witness ==
    /\ Has(user_pdf_data, "u1")
    /\ VersionOf(user_pdf_data["u1"], DocA)
    /\ ~Has(user_pdf_data, "u2")
    /\ \E t \in Threads :
          /\ pc[t] = "done"
          /\ req[t].user_id = "u2"
          /\ req[t].error = "Failed to generate embeddings"

ChunkInit ==
    /\ chunker \in ChunkerCalled
    /\ ranker = RankerIdle
    /\ user_pdf_data = EmptyDict
    /\ session = [c \in Clients |-> NoUser]
    /\ pc = [t \in Threads |-> "idle"]
    /\ req = [t \in Threads |-> NoReq]

ChunkSpec == ChunkInit /\ [][ChunkNext]_vars

\* chunk_text runs on the thread of its caller until it returns: a statement
\* that can execute does.
ChunkFairSpec == ChunkInit /\ [][ChunkNext]_vars /\ WF_vars(ChunkNext)

RankInit ==
    /\ chunker = ChunkerIdle
    /\ ranker \in RankerCalled
    /\ user_pdf_data = EmptyDict
    /\ session = [c \in Clients |-> NoUser]
    /\ pc = [t \in Threads |-> "idle"]
    /\ req = [t \in Threads |-> NoReq]

RankSpec == RankInit /\ [][RankNext]_vars

====
